---- MODULE Spec2Model ----
(***************************************************************************)
(* A model of four parts of galax:                                         *)
(*   - the composite phase-space position (coordinates/_psp/               *)
(*     base_composite.py),                                                 *)
(*   - the mock-stream generator run (described in the specification; its  *)
(*     test is tests/unit/dynamics/mockstream/test_mockstreamgenerator.py),*)
(*   - the construction-time validation of the multipole potentials        *)
(*     (potential/_src/builtin/multipole.py),                              *)
(*   - lagrange_points and its overloads (dynamics/_src/cluster/           *)
(*     register_funcs.py).                                                 *)
(* Each part has its own specification (SpecComposite, SpecMock,           *)
(* SpecMultipole, SpecLagrange); the variables of the other parts stay at  *)
(* their idle values.                                                      *)
(***************************************************************************)
EXTENDS Integers, Sequences, FiniteSets, TLC

VARIABLES
    \* ---- composite phase-space positions
    objs,       \* heap of component phase-space positions (index = identity)
    cpsps,      \* heap of composites: each an ordered <<label, object id>> list
    ret,        \* the last call on a composite and what it returned
    pre,        \* the two heaps as they were when the last call was made
    orig,       \* the two heaps as they were after construction
    \* ---- lagrange_points
    lp_in,      \* the host, the progenitor's position, velocity, mass and time
    lp_out,     \* the last call of lagrange_points and the points it returned
    \* ---- multipole potentials
    mp_pot,     \* the multipole potential constructed, and how construction ended
    mp_eval,    \* the last evaluation of its potential
    \* ---- mock-stream generator
    ms_in,      \* the arguments of the run
    ms_mode,    \* the integration mode of the run in progress
    ms_prog,    \* the progenitor: its status and its trajectory so far
    ms_tr,      \* the tracers released so far
    ms_buf,     \* the output buffer, one slot per tracer
    ms_reord,   \* whether the run has left the order of the timesteps
    ms_res,     \* what each mode returned
    \* ---- potential field engine
    pf_out      \* the values returned so far by the methods of the potential

varsC == <<objs, cpsps, ret, pre, orig>>
varsL == <<lp_in, lp_out>>
varsP == <<mp_pot, mp_eval>>
varsM == <<ms_in, ms_mode, ms_prog, ms_tr, ms_buf, ms_reord, ms_res>>
varsF == <<pf_out>>

vars == <<objs, cpsps, ret, pre, orig, lp_in, lp_out, mp_pot, mp_eval,
          ms_in, ms_mode, ms_prog, ms_tr, ms_buf, ms_reord, ms_res, pf_out>>

(***************************************************************************)
(* Bounds of the model.                                                    *)
(***************************************************************************)
\* most components of a composite whose length and shape are computed
MaxComps == 2
\* most composites created by calls after the first one
MaxCalls == 2
\* the largest whole square or cube root the exact arithmetic looks for
MaxRoot == 12
\* the largest l_max of a multipole potential
MaxLmax == 1
\* the largest number of stripping times of a mock-stream run
MaxN == 2
\* the largest batch of positions a potential is evaluated at
MaxBatch == 2

(***************************************************************************)
(* The idle values of each part's variables: what they hold in the         *)
(* specifications of the other parts.                                      *)
(***************************************************************************)
CompositeIdle ==
    /\ objs = <<>>
    /\ cpsps = <<>>
    /\ ret = [op |-> "init", self |-> 1, ok |-> TRUE, value |-> 1, key |-> "None"]
    /\ pre = [objs |-> <<>>, cpsps |-> <<>>]
    /\ orig = [objs |-> <<>>, cpsps |-> <<>>]

NoCall == [via |-> "none", l1 |-> <<<<0, 1>>, <<0, 1>>, <<0, 1>>>>, l2 |-> <<<<0, 1>>, <<0, 1>>, <<0, 1>>>>, t |-> 0]

LagrangeIdle ==
    /\ lp_in = [potential |-> "A", x |-> <<0, 0, 1>>, v |-> <<1, 0, 0>>, mass |-> 0,
                t |-> 0, t_shape |-> <<>>, own_t |-> 0]
    /\ lp_out = NoCall

NoPotential == [status |-> "none"]
NoEvaluation == [called |-> FALSE]

MultipoleIdle ==
    /\ mp_pot = NoPotential
    /\ mp_eval = NoEvaluation

\* a phase-space state: a finite value, or a non-finite one
Finite(k) == [finite |-> TRUE, value |-> k]
NaN == [finite |-> FALSE, value |-> 0]

NoResult == [done |-> FALSE]
NoRun == [scan |-> NoResult, vmap |-> NoResult]
FreshProgenitor == [status |-> "Initialized", traj |-> <<>>]

MockIdle ==
    /\ ms_in = [N |-> 1, w0 |-> NaN, seed |-> 0, m_tot |-> 1, diverges |-> {}]
    /\ ms_mode = "scan"
    /\ ms_prog = FreshProgenitor
    /\ ms_tr = <<>>
    /\ ms_buf = <<>>
    /\ ms_reord = FALSE
    /\ ms_res = NoRun

NoValues == [potential |-> {}, gradient |-> {}, density |-> {}, hessian |-> {},
             tidal_tensor |-> {}]

FieldIdle == pf_out = NoValues

(***************************************************************************)
(* Small helpers.                                                          *)
(***************************************************************************)
RECURSIVE SumSeq(_)
SumSeq(s) == IF s = <<>> THEN 0 ELSE s[1] + SumSeq(Tail(s))

Max2(a, b) == IF a >= b THEN a ELSE b

\* all sequences of length n over S without repetition
InjSeqs(S, n) == {s \in [1..n -> S] : \A i, j \in 1..n : i # j => s[i] # s[j]}

(***************************************************************************)
(* Exact arithmetic: a number is a fraction <<n, d>> in lowest terms with  *)
(* d > 0; a vector is a triple of numbers.                                 *)
(***************************************************************************)
Abs(n) == IF n < 0 THEN -n ELSE n

RECURSIVE GCD(_, _)
GCD(a, b) == IF b = 0 THEN a ELSE GCD(b, a % b)

Frac(n, d) ==
    LET g == GCD(Abs(n), Abs(d))
        sgn == IF d < 0 THEN -1 ELSE 1
    IN  <<(sgn * n) \div g, (sgn * d) \div g>>

Num(k) == <<k, 1>>
RAdd(a, b) == Frac(a[1] * b[2] + b[1] * a[2], a[2] * b[2])
RSub(a, b) == Frac(a[1] * b[2] - b[1] * a[2], a[2] * b[2])
RMul(a, b) == Frac(a[1] * b[1], a[2] * b[2])
RDiv(a, b) == Frac(a[1] * b[2], a[2] * b[1])
RPos(a) == a[1] > 0
RNonNeg(a) == a[1] >= 0

\* whole roots, looked for up to MaxRoot
Roots(n) == 0..(IF n < MaxRoot THEN n ELSE MaxRoot)
IsSquare(n) == \E k \in Roots(n) : k * k = n
ISqrt(n) == CHOOSE k \in Roots(n) : k * k = n
IsCube(n) == \E k \in Roots(n) : k * k * k = n
ICbrt(n) == CHOOSE k \in Roots(n) : k * k * k = n

\* jnp.sqrt and jnp.cbrt on the numbers that have an exact root
RSqrt(a) == <<ISqrt(a[1]), ISqrt(a[2])>>
RCbrt(a) == <<ICbrt(a[1]), ICbrt(a[2])>>
HasCbrt(a) == a[1] >= 0 /\ IsCube(a[1]) /\ IsCube(a[2])

VAdd(a, b) == <<RAdd(a[1], b[1]), RAdd(a[2], b[2]), RAdd(a[3], b[3])>>
VSub(a, b) == <<RSub(a[1], b[1]), RSub(a[2], b[2]), RSub(a[3], b[3])>>
VScale(a, k) == <<RMul(a[1], k), RMul(a[2], k), RMul(a[3], k)>>
VDot(a, b) == RAdd(RAdd(RMul(a[1], b[1]), RMul(a[2], b[2])), RMul(a[3], b[3]))
VCross(a, b) ==
    <<RSub(RMul(a[2], b[3]), RMul(a[3], b[2])),
      RSub(RMul(a[3], b[1]), RMul(a[1], b[3])),
      RSub(RMul(a[1], b[2]), RMul(a[2], b[1]))>>
VNormSq(a) == VDot(a, a)
VZero == <<Num(0), Num(0), Num(0)>>
VOfInts(a) == <<Num(a[1]), Num(a[2]), Num(a[3])>>

(***************************************************************************)
(* The tidal radius (King 1962) of the progenitor in the host potential.   *)
(***************************************************************************)
HostPotentials == {"A", "B", "C"}
Times == {0, 1}

\* d2(Phi)/dr2 of the host at the progenitor: host A varies with time, hosts
\* B and C with the distance from the centre
d2potential_dr2(potential, x, t) ==
    LET near == ~RPos(RSub(VNormSq(x), Num(4)))
    IN  IF potential = "A" THEN (IF t = 0 THEN Num(0) ELSE Num(-7))
        ELSE IF potential = "B" THEN (IF near THEN Num(-7) ELSE Num(-26))
        ELSE (IF near THEN Num(-1) ELSE Num(-8))

\* the square of the orbital angular velocity |x cross v| / |x|^2
orbital_angular_velocity_sq(x, v) ==
    RDiv(VNormSq(VCross(x, v)), RMul(VNormSq(x), VNormSq(x)))

\* G m / (Omega^2 - d2Phi/dr2), in units with G = 1
tidal_cube(potential, x, v, mass, t) ==
    RDiv(Num(mass),
         RSub(orbital_angular_velocity_sq(x, v), d2potential_dr2(potential, x, t)))

tidal_radius_king1962(potential, x, v, mass, t) ==
    RCbrt(tidal_cube(potential, x, v, mass, t))

(***************************************************************************)
(* lagrange_points and its overloads.                                      *)
(***************************************************************************)
Quantity(value) == [cls |-> "Quantity", value |-> value]
CartesianPos3D(q) == [cls |-> "CartesianPos3D", x |-> q[1], y |-> q[2], z |-> q[3]]
CartesianVel3D(q) == [cls |-> "CartesianVel3D", d_x |-> q[1], d_y |-> q[2], d_z |-> q[3]]

\* plum.convert(x, u.Quantity): a Quantity as it is, a Cartesian vector as
\* the Quantity of its stacked components
convert(x) ==
    IF x.cls = "Quantity" THEN x
    ELSE IF x.cls = "CartesianPos3D" THEN Quantity(<<x.x, x.y, x.z>>)
    ELSE Quantity(<<x.d_x, x.d_y, x.d_z>>)

\* cx.vecs.normalize_vector: x / |x|
normalize_vector_off(x) == x
normalize_vector(x) == VScale(x, RDiv(Num(1), RSqrt(VNormSq(x))))

\* lagrange_points(potential, x, v, *, mass, t), were it to return the
\* points relative to the progenitor
lagrange_points_relative(potential, x, v, mass, t) ==
    LET xq == convert(x).value
        vq == convert(v).value
        r_t == tidal_radius_king1962(potential, xq, vq, mass, t)
        r_hat == normalize_vector(xq)
    IN  [l1 |-> VSub(VZero, VScale(r_hat, r_t)), l2 |-> VScale(r_hat, r_t)]

\* lagrange_points(potential, x, v, *, mass, t)
lagrange_points(potential, x, v, mass, t) ==
    LET xq == convert(x).value
        vq == convert(v).value
        r_t == tidal_radius_king1962(potential, xq, vq, mass, t)
        r_hat == normalize_vector(xq)
    IN  [l1 |-> VSub(xq, VScale(r_hat, r_t)), l2 |-> VAdd(xq, VScale(r_hat, r_t))]

\* lagrange_points(pot, space, *, mass, t)
lagrange_points_space(pot, space, mass, t) ==
    lagrange_points(pot, space["length"], space["speed"], mass, t)

\* lagrange_points(pot, coord, *, mass, t)
lagrange_points_coord(pot, coord, mass, t) ==
    lagrange_points_space(pot, coord.data, mass, t)

\* w.t.squeeze(): the time without its axes of length one
squeeze(tq) == [shape |-> SelectSeq(tq.shape, LAMBDA n : n # 1), value |-> tq.value]

\* lagrange_points(pot, w: PhaseSpaceCoordinate, *, mass)
lagrange_points_psc(pot, w, mass) ==
    lagrange_points(pot, w.q, w.p, mass, squeeze(w.t).value)

\* lagrange_points(pot, w: PhaseSpacePosition, *, mass, time), were it to
\* read the time of w
lagrange_points_psp_own_t(pot, w, mass, time) ==
    lagrange_points(pot, w.q, w.p, mass, w.t.value)

\* lagrange_points(pot, w: PhaseSpacePosition, *, mass, time)
lagrange_points_psp(pot, w, mass, time) ==
    lagrange_points(pot, w.q, w.p, mass, time)

\* progenitor positions (all with a whole-number distance from the centre)
\* and velocities
Positions == {<<0, 0, 1>>, <<0, -2, 0>>, <<3, 4, 0>>, <<2, -1, 2>>}
Velocities == {<<1, 0, 0>>, <<0, 2, 0>>, <<0, 0, 5>>, <<1, -2, -2>>, <<2, -1, 2>>}
Masses == {0, 1, 8}

\* the inputs on which the arithmetic above is exact: the progenitor is off
\* the centre and G m / (Omega^2 - d2Phi/dr2) is the cube of a fraction, at
\* every time
ExactCase(potential, x, v, mass) ==
    \A t \in Times :
        LET den == RSub(orbital_angular_velocity_sq(VOfInts(x), VOfInts(v)),
                        d2potential_dr2(potential, VOfInts(x), t))
        IN  /\ RPos(den)
            /\ HasCbrt(RDiv(Num(mass), den))

\* the objects a call is given, made from the inputs
in_x == Quantity(VOfInts(lp_in.x))
in_v == Quantity(VOfInts(lp_in.v))
in_space ==
    [k \in {"length", "speed", "acceleration"} |->
        IF k = "length" THEN CartesianPos3D(VOfInts(lp_in.x))
        ELSE IF k = "speed" THEN CartesianVel3D(VOfInts(lp_in.v))
        ELSE CartesianVel3D(VZero)]
in_coord == [data |-> in_space, frame |-> "ICRS"]
in_psc == [q |-> CartesianPos3D(VOfInts(lp_in.x)), p |-> CartesianVel3D(VOfInts(lp_in.v)),
           t |-> [shape |-> lp_in.t_shape, value |-> lp_in.t]]
in_psp == [q |-> CartesianPos3D(VOfInts(lp_in.x)), p |-> CartesianVel3D(VOfInts(lp_in.v)),
           t |-> [shape |-> <<>>, value |-> lp_in.own_t]]

(***************************************************************************)
(* Component phase-space positions (galax.coordinates.PhaseSpacePosition). *)
(* A component is an immutable object: batch shape, unit system, position  *)
(* and velocity representation, and the object it was derived from.        *)
(***************************************************************************)
ComponentLabels == {"a", "b", "c"}
\* batch shapes of the components whose length and shape are computed
BatchShapes == {<<>>, <<1>>, <<2>>, <<3>>, <<2, 3>>}
\* labels and batch shapes of the components of the composites that are
\* converted, indexed and re-represented
CallLabels == {"a", "b"}
CallShapes == {<<>>, <<2>>}
UnitSystems == {"galactic", "solarsystem"}
PositionClasses == {"CylindricalPosition"}
NoDifferential == "None"
DifferentialArgs == {NoDifferential, "SphericalVelocity"}
IndexKeys == {"int0", "slice0to1"}

\* len(psp): the first batch dimension, 0 for a scalar batch
psp_len(w) == IF w.shape = <<>> THEN 0 ELSE w.shape[1]

\* psp.to_units(units): a new component in the given unit system
psp_to_units(w, id, units) ==
    [shape |-> w.shape, units |-> units, q |-> w.q, p |-> w.p,
     from |-> id, by |-> "to_units"]

\* whether psp[key] raises: an integer index into a scalar batch
psp_getitem_raises(w, key) == key = "int0" /\ w.shape = <<>>

\* psp[key]: an integer drops the first batch dimension, the slice 0:1 keeps
\* at most one element of it (a scalar batch cannot be sliced either way)
psp_getitem(w, id, key) ==
    [shape |-> IF key = "int0" THEN Tail(w.shape)
               ELSE IF w.shape = <<>> THEN <<>>
               ELSE <<IF w.shape[1] >= 1 THEN 1 ELSE 0>> \o Tail(w.shape),
     units |-> w.units, q |-> w.q, p |-> w.p,
     from |-> id, by |-> key]

\* position_cls.differential_cls
differential_cls_of(position_cls) ==
    IF position_cls = "CylindricalPosition" THEN "CylindricalVelocity"
    ELSE "CartesianVelocity3D"

\* represent_as(psp, position_cls, differential_cls) on one component
psp_represent_as(w, id, position_cls, differential) ==
    [shape |-> w.shape, units |-> w.units, q |-> position_cls,
     p |-> differential, from |-> id, by |-> "represent_as"]

(***************************************************************************)
(* AbstractCompositePhaseSpacePosition.                                    *)
(* A composite is the ordered mapping _data: a sequence of                 *)
(* <<label, object id>> pairs in insertion order.                          *)
(***************************************************************************)
keys(c) == [i \in DOMAIN c |-> c[i][1]]
values(c) == [i \in DOMAIN c |-> objs[c[i][2]]]

\* type(self)(**kwargs): the composite built from the keyword arguments,
\* in their order
CompositeInit(kwargs) == kwargs

\* jnp.broadcast_shapes of two shapes: right-aligned, a dimension of 1
\* stretches, anything else must agree ("ValueError" otherwise)
RECURSIVE broadcast2(_, _)
broadcast2(s, t) ==
    IF s = "ValueError" \/ t = "ValueError" THEN "ValueError"
    ELSE IF s = <<>> THEN t
    ELSE IF t = <<>> THEN s
    ELSE LET a == s[Len(s)]
             b == t[Len(t)]
             rest == broadcast2(SubSeq(s, 1, Len(s) - 1), SubSeq(t, 1, Len(t) - 1))
         IN  IF rest = "ValueError" THEN "ValueError"
             ELSE IF a = b \/ b = 1 THEN rest \o <<a>>
             ELSE IF a = 1 THEN rest \o <<b>>
             ELSE "ValueError"

RECURSIVE broadcast_shapes(_)
broadcast_shapes(shapes) ==
    IF shapes = <<>> THEN <<>>
    ELSE broadcast2(shapes[1], broadcast_shapes(Tail(shapes)))

\* __len__: sum([len(w) or 1 for w in self.values()])
LenOr1Off(w) == psp_len(w)
LenOr1(w) == IF psp_len(w) = 0 THEN 1 ELSE psp_len(w)
__len__(ws) == SumSeq([i \in DOMAIN ws |-> LenOr1(ws[i])])

\* _shape_tuple[0]: the batch shape of the composite
ShapeTupleNoScale(ws) ==
    LET batch_shape == broadcast_shapes([i \in DOMAIN ws |-> ws[i].shape])
    IN  IF batch_shape = "ValueError" THEN "ValueError"
        ELSE IF batch_shape = <<>> THEN <<__len__(ws)>>
        ELSE batch_shape
_shape_tuple(ws) ==
    LET batch_shape == broadcast_shapes([i \in DOMAIN ws |-> ws[i].shape])
    IN  IF batch_shape = "ValueError" THEN "ValueError"
        ELSE IF batch_shape = <<>> THEN <<__len__(ws)>>
        ELSE SubSeq(batch_shape, 1, Len(batch_shape) - 1)
             \o <<Len(ws) * batch_shape[Len(batch_shape)]>>

\* ids of the objects the comprehension {k: f(v) for k, v in self.items()}
\* creates, in order, on a heap that holds n objects
FreshIds(c, n) == [i \in DOMAIN c |-> n + i]

\* the composite type(self)(**{k: new_v ...}): same labels, fresh objects
Rebuilt(c, n) == CompositeInit([i \in DOMAIN c |-> <<c[i][1], FreshIds(c, n)[i]>>])

\* the initial composites: 1..most components with distinct labels and
\* batch shapes from the given sets
InitCompositeOf(labels, shapes, most) ==
    /\ \E n \in 1..most :
         \E ls \in InjSeqs(labels, n) :
           \E shs \in [1..n -> shapes] :
             /\ objs = [i \in 1..n |->
                          [shape |-> shs[i], units |-> "galactic",
                           q |-> "CartesianPosition3D", p |-> "CartesianVelocity3D",
                           from |-> 0, by |-> "new"]]
             /\ cpsps = <<CompositeInit([i \in 1..n |-> <<ls[i], i>>])>>
    /\ ret = [op |-> "init", self |-> 1, ok |-> TRUE, value |-> 1, key |-> "None"]
    /\ pre = [objs |-> objs, cpsps |-> cpsps]
    /\ orig = [objs |-> objs, cpsps |-> cpsps]
    /\ LagrangeIdle
    /\ MultipoleIdle
    /\ MockIdle
    /\ FieldIdle

\* to_units, were it to convert the components where they are stored
to_units_inplace(self, units) ==
    /\ pre' = [objs |-> objs, cpsps |-> cpsps]
    /\ LET ids == {cpsps[self][i][2] : i \in DOMAIN cpsps[self]}
       IN  objs' = [o \in DOMAIN objs |->
                     IF o \in ids THEN psp_to_units(objs[o], objs[o].from, units)
                     ELSE objs[o]]
    /\ cpsps' = cpsps
    /\ ret' = [op |-> "to_units", self |-> self, ok |-> TRUE,
               value |-> self, key |-> units]

\* to_units: type(self)(**{k: v.to_units(units) for k, v in self.items()})
to_units(self, units) ==
    /\ Len(cpsps) <= MaxCalls
    /\ pre' = [objs |-> objs, cpsps |-> cpsps]
    /\ LET c == cpsps[self]
           n == Len(objs)
       IN  /\ objs' = objs \o [i \in DOMAIN c |-> psp_to_units(objs[c[i][2]], c[i][2], units)]
           /\ cpsps' = Append(cpsps, Rebuilt(c, n))
           /\ ret' = [op |-> "to_units", self |-> self, ok |-> TRUE,
                      value |-> Len(cpsps) + 1, key |-> units]

\* __getitem__ with a string key: return self._data[key]
getitem_str(self, key) ==
    LET c == cpsps[self]
        hit == {i \in DOMAIN c : c[i][1] = key}
    IN  /\ pre' = [objs |-> objs, cpsps |-> cpsps]
        /\ ret' = IF hit = {}
                  THEN [op |-> "getitem_str", self |-> self, ok |-> FALSE,
                        value |-> "KeyError", key |-> key]
                  ELSE [op |-> "getitem_str", self |-> self, ok |-> TRUE,
                        value |-> c[CHOOSE i \in hit : TRUE][2], key |-> key]
        /\ UNCHANGED <<objs, cpsps>>

\* __getitem__ with any other key:
\* type(self)(**{k: v[key] for k, v in self.items()})
getitem_index(self, key) ==
    /\ Len(cpsps) <= MaxCalls
    /\ pre' = [objs |-> objs, cpsps |-> cpsps]
    /\ LET c == cpsps[self]
           n == Len(objs)
       IN  IF \E i \in DOMAIN c : psp_getitem_raises(objs[c[i][2]], key)
           THEN /\ ret' = [op |-> "getitem", self |-> self, ok |-> FALSE,
                           value |-> "IndexError", key |-> key]
                /\ UNCHANGED <<objs, cpsps>>
           ELSE /\ objs' = objs \o [i \in DOMAIN c |-> psp_getitem(objs[c[i][2]], c[i][2], key)]
                /\ cpsps' = Append(cpsps, Rebuilt(c, n))
                /\ ret' = [op |-> "getitem", self |-> self, ok |-> TRUE,
                           value |-> Len(cpsps) + 1, key |-> key]

\* represent_as(psp, position_cls, differential=None)
represent_as(psp, position_cls, differential) ==
    /\ Len(cpsps) <= MaxCalls
    /\ pre' = [objs |-> objs, cpsps |-> cpsps]
    /\ LET c == cpsps[psp]
           n == Len(objs)
           differential_cls == IF differential = NoDifferential
                               THEN differential_cls_of(position_cls)
                               ELSE differential
       IN  /\ objs' = objs \o [i \in DOMAIN c |->
                        psp_represent_as(objs[c[i][2]], c[i][2], position_cls, differential_cls)]
           /\ cpsps' = Append(cpsps, Rebuilt(c, n))
           /\ ret' = [op |-> "represent_as", self |-> psp, ok |-> TRUE,
                      value |-> Len(cpsps) + 1, key |-> position_cls]

\* len(composite) and composite._shape_tuple[0], recorded as the call's result
call_len(self) ==
    /\ ret' = [op |-> "len", self |-> self, ok |-> TRUE,
               value |-> __len__(values(cpsps[self])), key |-> "None"]
    /\ pre' = [objs |-> objs, cpsps |-> cpsps]
    /\ UNCHANGED <<objs, cpsps>>

call_shape_tuple(self) ==
    /\ ret' = [op |-> "_shape_tuple", self |-> self,
               ok |-> _shape_tuple(values(cpsps[self])) # "ValueError",
               value |-> _shape_tuple(values(cpsps[self])), key |-> "None"]
    /\ pre' = [objs |-> objs, cpsps |-> cpsps]
    /\ UNCHANGED <<objs, cpsps>>

\* what a call on a composite leaves alone
CompositeFrame == UNCHANGED <<orig, varsL, varsP, varsM, varsF>>

CallLen == (\E self \in DOMAIN cpsps : call_len(self)) /\ CompositeFrame

CallShapeTuple == (\E self \in DOMAIN cpsps : call_shape_tuple(self)) /\ CompositeFrame

CallToUnits ==
    (\E self \in DOMAIN cpsps : \E u \in UnitSystems : to_units(self, u)) /\ CompositeFrame

CallGetItemStr ==
    (\E self \in DOMAIN cpsps : \E k \in ComponentLabels : getitem_str(self, k))
    /\ CompositeFrame

CallGetItemIndex ==
    (\E self \in DOMAIN cpsps : \E k \in IndexKeys : getitem_index(self, k))
    /\ CompositeFrame

CallRepresentAs ==
    (\E self \in DOMAIN cpsps : \E pc \in PositionClasses : \E d \in DifferentialArgs :
        represent_as(self, pc, d))
    /\ CompositeFrame

InitComposite == InitCompositeOf(CallLabels, CallShapes, Cardinality(CallLabels))

NextComposite ==
    \/ CallToUnits
    \/ CallGetItemStr
    \/ CallGetItemIndex
    \/ CallRepresentAs

SpecComposite == InitComposite /\ [][NextComposite]_vars

InitCompositeShape == InitCompositeOf(ComponentLabels, BatchShapes, MaxComps)

NextCompositeShape ==
    \/ CallLen
    \/ CallShapeTuple

SpecCompositeShape == InitCompositeShape /\ [][NextCompositeShape]_vars

(***************************************************************************)
(* Claims about the composite phase-space position.                        *)
(***************************************************************************)
\* one slot per batch element of every component, a scalar component
\* holding one
ParticleSlots(c) ==
    UNION {{<<i, j>> : j \in 1..Max2(1, psp_len(objs[c[i][2]]))} : i \in DOMAIN c}

\* C5: len(composite) is the sum over its components of the component's
\* length, a component of length 0 counting as 1: it counts one slot per
\* batch element, and a composite of k scalar components has length k.
C5_LenIsSumOfComponentLengths ==
    ret.op = "len" =>
        LET c == cpsps[ret.self]
        IN  /\ ret.value = Cardinality(ParticleSlots(c))
            /\ (\A i \in DOMAIN c : objs[c[i][2]].shape = <<>>) => ret.value = Len(c)

\* a length was taken of a composite that mixes a scalar component with a
\* batched one
C5_Witness ==
    /\ ret.op = "len"
    /\ \E i, j \in DOMAIN cpsps[ret.self] :
         /\ objs[cpsps[ret.self][i][2]].shape = <<>>
         /\ psp_len(objs[cpsps[ret.self][j][2]]) >= 2
    /\ ret.value >= 3

\* C18: for a composite whose components have scalar or one-dimensional
\* batch shapes, the last dimension of the batch shape _shape_tuple returns
\* is len(composite), the sum of the lengths of the components with a
\* length of 0 counted as 1, also when the components differ in length.
C18_LastDimensionIsLen ==
    (/\ ret.op = "_shape_tuple"
     /\ ret.ok
     /\ \A i \in DOMAIN cpsps[ret.self] : Len(objs[cpsps[ret.self][i][2]].shape) <= 1) =>
        /\ ret.value # <<>>
        /\ ret.value[Len(ret.value)] = Cardinality(ParticleSlots(cpsps[ret.self]))

CreatingCalls == {"to_units", "getitem", "represent_as"}

\* C6: a composite is never mutated in place. Whatever calls were made,
\* every composite and component that existed before the last call, and the
\* original composite, are as they were; a to_units, non-string indexing or
\* represent_as call that returns gives a new composite of new components
\* under the same labels in the same order; and indexing with a string
\* label returns the stored component object itself.
C6_NeverMutatedInPlace ==
    /\ \A i \in DOMAIN pre.cpsps : i \in DOMAIN cpsps /\ cpsps[i] = pre.cpsps[i]
    /\ \A o \in DOMAIN pre.objs : o \in DOMAIN objs /\ objs[o] = pre.objs[o]
    /\ \A i \in DOMAIN orig.cpsps : cpsps[i] = orig.cpsps[i]
    /\ \A o \in DOMAIN orig.objs : objs[o] = orig.objs[o]
    /\ (ret.op \in CreatingCalls /\ ret.ok) =>
          /\ ret.value \in DOMAIN cpsps
          /\ ret.value \notin DOMAIN pre.cpsps
          /\ keys(cpsps[ret.value]) = keys(pre.cpsps[ret.self])
          /\ \A i \in DOMAIN cpsps[ret.value] :
                cpsps[ret.value][i][2] \notin DOMAIN pre.objs
    /\ (ret.op = "getitem_str" /\ ret.ok) =>
          /\ ret.value \in DOMAIN pre.objs
          /\ \E i \in DOMAIN cpsps[ret.self] :
                cpsps[ret.self][i] = <<ret.key, ret.value>>

\* a second conversion, made on a composite that an earlier call returned,
\* of two components
C6_Witness ==
    /\ Len(cpsps) = 3
    /\ ret.op \in CreatingCalls
    /\ ret.ok
    /\ ret.self = 2
    /\ Len(cpsps[1]) = 2

InitLagrange ==
    /\ \E pot \in HostPotentials, x \in Positions, v \in Velocities, m \in Masses,
          t \in Times, sh \in {<<>>, <<1>>}, own \in Times :
         /\ ExactCase(pot, x, v, m)
         /\ lp_in = [potential |-> pot, x |-> x, v |-> v, mass |-> m, t |-> t,
                     t_shape |-> sh, own_t |-> own]
    /\ lp_out = NoCall
    /\ CompositeIdle
    /\ MultipoleIdle
    /\ MockIdle
    /\ FieldIdle

Returned(via, pts, t) == [via |-> via, l1 |-> pts.l1, l2 |-> pts.l2, t |-> t]

\* what a call of lagrange_points leaves alone
LagrangeFrame == UNCHANGED <<lp_in, varsC, varsP, varsM, varsF>>

CallVector ==
    /\ lp_out' = Returned("Quantity",
                           lagrange_points(lp_in.potential, in_x, in_v, lp_in.mass, lp_in.t),
                           lp_in.t)
    /\ LagrangeFrame

CallCxVector ==
    /\ lp_out' = Returned("coordinax",
                           lagrange_points(lp_in.potential, in_space["length"],
                                           in_space["speed"], lp_in.mass, lp_in.t),
                           lp_in.t)
    /\ LagrangeFrame

CallSpace ==
    /\ lp_out' = Returned("Space",
                           lagrange_points_space(lp_in.potential, in_space, lp_in.mass, lp_in.t),
                           lp_in.t)
    /\ LagrangeFrame

CallCoordinate ==
    /\ lp_out' = Returned("Coordinate",
                           lagrange_points_coord(lp_in.potential, in_coord, lp_in.mass, lp_in.t),
                           lp_in.t)
    /\ LagrangeFrame

CallPhaseSpaceCoordinate ==
    /\ lp_out' = Returned("PhaseSpaceCoordinate",
                           lagrange_points_psc(lp_in.potential, in_psc, lp_in.mass),
                           lp_in.t)
    /\ LagrangeFrame

CallPhaseSpacePosition ==
    /\ \E time \in Times :
         lp_out' = Returned("PhaseSpacePosition",
                            lagrange_points_psp(lp_in.potential, in_psp, lp_in.mass, time),
                            time)
    /\ LagrangeFrame

NextLagrange ==
    \/ CallVector
    \/ CallCxVector
    \/ CallSpace
    \/ CallCoordinate
    \/ CallPhaseSpaceCoordinate
    \/ CallPhaseSpacePosition

SpecLagrange == InitLagrange /\ [][NextLagrange]_vars

(***************************************************************************)
(* The multipole potentials: construction (__check_init__) and evaluation. *)
(***************************************************************************)
MultipoleVariants == {"MultipoleInnerPotential", "MultipoleOuterPotential", "MultipolePotential"}

\* the coefficient parameters of each variant
CoefficientNames(variant) ==
    IF variant = "MultipolePotential" THEN {"ISlm", "ITlm", "OSlm", "OTlm"}
    ELSE {"Slm", "Tlm"}

\* the shapes a coefficient array is given with: the right one, one too
\* large, and one of the wrong rank
CoefficientShapes(l_max) == {<<l_max + 1, l_max + 1>>, <<l_max + 2, l_max + 2>>, <<l_max + 1>>}

\* a parameter is a constant array, or a function of time whose array may
\* differ between t = 0 and later times
Parameters(l_max) ==
    {[kind |-> "constant", at0 |-> sh, later |-> sh] : sh \in CoefficientShapes(l_max)}
    \cup {[kind |-> "time-dependent", at0 |-> sh[1], later |-> sh[2]] :
            sh \in CoefficientShapes(l_max) \X CoefficientShapes(l_max)}

\* self.Slm(t).shape
ParameterShape(param, t) == IF t = 0 THEN param.at0 ELSE param.later

\* MultipoleInnerPotential.__check_init__: the shapes of Slm and Tlm at
\* t = 0 Gyr against (l_max + 1, l_max + 1)
check_init_inner(l_max, coeffs) ==
    LET shape == <<l_max + 1, l_max + 1>>
        s_shape == ParameterShape(coeffs["Slm"], 0)
        t_shape == ParameterShape(coeffs["Tlm"], 0)
    IN  IF s_shape # shape \/ t_shape # shape THEN "ValueError" ELSE "ok"

\* MultipoleOuterPotential.__check_init__
check_init_outer(l_max, coeffs) ==
    LET shape == <<l_max + 1, l_max + 1>>
        s_shape == ParameterShape(coeffs["Slm"], 0)
        t_shape == ParameterShape(coeffs["Tlm"], 0)
    IN  IF s_shape # shape \/ t_shape # shape THEN "ValueError" ELSE "ok"

\* MultipolePotential.__check_init__
check_init_both(l_max, coeffs) ==
    LET shape == <<l_max + 1, l_max + 1>>
        is_shape == ParameterShape(coeffs["ISlm"], 0)
        it_shape == ParameterShape(coeffs["ITlm"], 0)
        os_shape == ParameterShape(coeffs["OSlm"], 0)
        ot_shape == ParameterShape(coeffs["OTlm"], 0)
    IN  IF is_shape # shape \/ it_shape # shape \/ os_shape # shape \/ ot_shape # shape
        THEN "ValueError" ELSE "ok"

__check_init__(variant, l_max, coeffs) ==
    CASE variant = "MultipoleInnerPotential" -> check_init_inner(l_max, coeffs)
      [] variant = "MultipoleOuterPotential" -> check_init_outer(l_max, coeffs)
      [] variant = "MultipolePotential" -> check_init_both(l_max, coeffs)

\* indexing a coefficient array as Slm[l, m] in the summand: an array of
\* rank one cannot be indexed by two indices, any array of rank two can
\* (jax clamps an index that is out of bounds)
IndexOutcome(shape) == IF Len(shape) = 2 THEN "value" ELSE "IndexError"

\* constructing a potential: the dataclass is initialised and then checked
Construct(variant, l_max, coeffs) ==
    /\ mp_pot = NoPotential
    /\ mp_pot' = [status |-> __check_init__(variant, l_max, coeffs), variant |-> variant,
                  l_max |-> l_max, coeffs |-> coeffs]
    /\ UNCHANGED mp_eval

\* _potential(xyz, t) of a constructed potential: the coefficient arrays
\* are those of time t
Evaluate(t) ==
    /\ mp_pot.status = "ok"
    /\ LET shapes == [n \in DOMAIN mp_pot.coeffs |-> ParameterShape(mp_pot.coeffs[n], t)]
       IN  mp_eval' = [called |-> TRUE, t |-> t, shapes |-> shapes,
                       outcome |-> IF \E n \in DOMAIN shapes : IndexOutcome(shapes[n]) = "IndexError"
                                   THEN "IndexError" ELSE "value"]
    /\ UNCHANGED mp_pot

MultipoleFrame == UNCHANGED <<varsC, varsL, varsM, varsF>>

CallConstruct ==
    /\ mp_pot = NoPotential
    /\ \E variant \in MultipoleVariants, l_max \in 0..MaxLmax :
         \E coeffs \in [CoefficientNames(variant) -> Parameters(l_max)] :
            Construct(variant, l_max, coeffs)
    /\ MultipoleFrame

CallEvaluate ==
    /\ \E t \in Times : Evaluate(t)
    /\ MultipoleFrame

InitMultipole ==
    /\ MultipoleIdle
    /\ CompositeIdle
    /\ LagrangeIdle
    /\ MockIdle
    /\ FieldIdle

NextMultipole ==
    \/ CallConstruct
    \/ CallEvaluate

SpecMultipole == InitMultipole /\ [][NextMultipole]_vars

(***************************************************************************)
(* The multipole potentials: the sum of _potential.  A value is kept as    *)
(* the terms of the sum, each with its exact radial factor and its         *)
(* coefficients, the spherical harmonic left symbolic; masses are in units *)
(* of 1/G.                                                                 *)
(***************************************************************************)
\* a coefficient array of n rows and n columns; Slm[l, m] is row l + 1,
\* column m + 1
Zeros(n) == [l \in 1..n |-> [m \in 1..n |-> 0]]
Monopole(n) == [l \in 1..n |-> [m \in 1..n |-> IF l = 1 /\ m = 1 THEN 1 ELSE 0]]
Numbered(n) == [l \in 1..n |-> [m \in 1..n |-> (l - 1) * n + m]]
UpperOnly(n) == [l \in 1..n |-> [m \in 1..n |-> IF m > l THEN 1 ELSE 0]]

\* a constant parameter holding the array
ConstantParameter(array) ==
    [kind |-> "constant", at0 |-> <<Len(array), Len(array)>>,
     later |-> <<Len(array), Len(array)>>, value |-> array]

CoefficientArrays(l_max) ==
    {Monopole(l_max + 1), Numbered(l_max + 1), UpperOnly(l_max + 1), Zeros(l_max + 2)}

EvalPositions == {<<0, 0, 1>>, <<1, 2, 2>>, <<0, -3, 4>>}
TotalMasses == {1, 3}
ScaleRadii == {1, 2}

\* the position arguments, as the rows of the array: one position of rank
\* 1, or a batch of rank 2
PositionArguments ==
    {[ndim |-> 1, rows |-> <<x>>] : x \in EvalPositions}
    \cup {[ndim |-> 2, rows |-> xs] : xs \in UNION {[1..b -> EvalPositions] : b \in 1..MaxBatch}}

\* a to the power n, n an integer
RECURSIVE RPow(_, _)
RPow(a, n) ==
    IF n = 0 THEN Num(1)
    ELSE IF n < 0 THEN RDiv(Num(1), RPow(a, 0 - n))
    ELSE RMul(a, RPow(a, n - 1))

\* jnp.atleast_2d(xyz): an array of rank 1 becomes an array of one row
atleast_2d(xyz) == IF xyz.ndim = 1 THEN [ndim |-> 2, rows |-> xyz.rows] ELSE xyz

\* cartesian_to_normalized_spherical: s = r / r_s, theta = acos(z / r),
\* phi = atan2(y, x), for each position of the batch
cartesian_to_normalized_spherical(q, r_s) ==
    [b \in DOMAIN q |->
        LET r == RSqrt(VNormSq(VOfInts(q[b])))
        IN  [s |-> RDiv(r, Num(r_s)),
             theta |-> [acos |-> RDiv(Num(q[b][3]), r)],
             phi |-> [atan2 |-> <<q[b][2], q[b][1]>>]]]

\* jnp.tril_indices(n): the pairs (l, m) of the lower triangle, row by row
full_indices(n) ==
    [k \in 1..(n * n) |-> <<(k - 1) \div n, (k - 1) % n>>]
RECURSIVE tril_indices(_)
tril_indices(n) ==
    IF n = 0 THEN <<>>
    ELSE tril_indices(n - 1) \o [m \in 1..n |-> <<n - 1, m - 1>>]

\* compute_Ylm: the real and imaginary parts of sph_harm(m, l, phi, theta)
compute_Ylm(l, m, theta, phi) ==
    [cPlm |-> [part |-> "real", l |-> l, m |-> m, theta |-> theta, phi |-> phi],
     sPlm |-> [part |-> "imag", l |-> l, m |-> m, theta |-> theta, phi |-> phi]]

\* sph_harm for l = m = 0: the real part is 1 / (2 sqrt(pi)), to four
\* digits, and the imaginary part is 0
sph_harm_00 == [real |-> <<2821, 10000>>, imag |-> <<0, 1>>]

\* one product jnp.pow(s, e) * (Slm[l, m] * cPlm + Tlm[l, m] * sPlm)
Piece(sph, e, Slm, Tlm, l, m) ==
    LET Y == compute_Ylm(l, m, sph.theta, sph.phi)
    IN  [radial |-> RPow(sph.s, e), S |-> Slm[l + 1][m + 1], cPlm |-> Y.cPlm,
         T |-> Tlm[l + 1][m + 1], sPlm |-> Y.sPlm]

\* summand(l, m) of the three classes, at one position
summand_inner(sph, c, l, m) == <<Piece(sph, l, c["Slm"].value, c["Tlm"].value, l, m)>>
summand_outer(sph, c, l, m) == <<Piece(sph, 0 - (l + 1), c["Slm"].value, c["Tlm"].value, l, m)>>
summand_both(sph, c, l, m) ==
    <<Piece(sph, l, c["ISlm"].value, c["ITlm"].value, l, m),
      Piece(sph, 0 - l - 1, c["OSlm"].value, c["OTlm"].value, l, m)>>

summand(variant, sph, c, l, m) ==
    CASE variant = "MultipoleInnerPotential" -> summand_inner(sph, c, l, m)
      [] variant = "MultipoleOuterPotential" -> summand_outer(sph, c, l, m)
      [] variant = "MultipolePotential" -> summand_both(sph, c, l, m)

\* summation[0] if is_scalar
select_batch(summation, is_scalar) ==
    [shape |-> <<Len(summation)>>, sum |-> summation]
select_scalar(summation, is_scalar) ==
    IF is_scalar THEN [shape |-> <<>>, sum |-> summation[1]]
    ELSE [shape |-> <<Len(summation)>>, sum |-> summation]

\* _potential(xyz, t): G * m_tot / r_s * summation
_potential(pot, xyz, t) ==
    LET is_scalar == xyz.ndim = 1
        sph == cartesian_to_normalized_spherical(atleast_2d(xyz).rows, pot.r_s)
        lms == tril_indices(pot.l_max + 1)
        summation == [b \in DOMAIN sph |->
                        [k \in DOMAIN lms |->
                            summand(pot.variant, sph[b], pot.coeffs, lms[k][1], lms[k][2])]]
        selected == select_scalar(summation, is_scalar)
    IN  [shape |-> selected.shape, scale |-> Frac(pot.m_tot, pot.r_s), sum |-> selected.sum]

\* constructing a potential with constant coefficients
ConstructConstant(variant, l_max, m_tot, r_s, coeffs) ==
    /\ mp_pot = NoPotential
    /\ mp_pot' = [status |-> __check_init__(variant, l_max, coeffs), variant |-> variant,
                  l_max |-> l_max, m_tot |-> m_tot, r_s |-> r_s, coeffs |-> coeffs]
    /\ UNCHANGED mp_eval

\* evaluating the potential of a constructed potential; _potential is
\* pure, and one evaluation of each potential is followed
EvaluateAt(xyz, t) ==
    /\ mp_pot.status = "ok"
    /\ ~mp_eval.called
    /\ mp_eval' = [called |-> TRUE, xyz |-> xyz, t |-> t, out |-> _potential(mp_pot, xyz, t)]
    /\ UNCHANGED mp_pot

CallConstructConstant ==
    /\ mp_pot = NoPotential
    /\ \E variant \in MultipoleVariants, l_max \in 0..MaxLmax, m_tot \in TotalMasses,
          r_s \in ScaleRadii :
         \E arrays \in [CoefficientNames(variant) -> CoefficientArrays(l_max)] :
            ConstructConstant(variant, l_max, m_tot, r_s,
                              [n \in DOMAIN arrays |-> ConstantParameter(arrays[n])])
    /\ MultipoleFrame

CallEvaluateAt ==
    /\ \E xyz \in PositionArguments, t \in Times : EvaluateAt(xyz, t)
    /\ MultipoleFrame

NextMultipoleSum ==
    \/ CallConstructConstant
    \/ CallEvaluateAt

SpecMultipoleSum == InitMultipole /\ [][NextMultipoleSum]_vars

(***************************************************************************)
(* Claims about the multipole potentials.                                  *)
(***************************************************************************)
\* C7: for each variant and each kind of coefficient parameter, a
\* coefficient array whose shape is not (l_max + 1, l_max + 1) raises at
\* construction: a potential that was constructed has coefficient arrays of
\* that shape at every time, and no evaluation meets an array of another
\* shape.
C7_ShapeMismatchRaisesAtConstruction ==
    /\ mp_pot.status = "ok" =>
         \A n \in DOMAIN mp_pot.coeffs : \A t \in Times :
            ParameterShape(mp_pot.coeffs[n], t) = <<mp_pot.l_max + 1, mp_pot.l_max + 1>>
    /\ mp_eval.called =>
         \A n \in DOMAIN mp_eval.shapes :
            mp_eval.shapes[n] = <<mp_pot.l_max + 1, mp_pot.l_max + 1>>

(***************************************************************************)
(* Claims about lagrange_points.                                           *)
(***************************************************************************)
\* the tidal radius of the last call
out_r_t ==
    tidal_radius_king1962(lp_in.potential, VOfInts(lp_in.x), VOfInts(lp_in.v),
                          lp_in.mass, lp_out.t)

C9_ZeroMassCollapses ==
    (lp_out.via # "none" /\ lp_in.mass = 0) =>
        /\ out_r_t = Num(0)
        /\ lp_out.l1 = VOfInts(lp_in.x)
        /\ lp_out.l2 = VOfInts(lp_in.x)

\* the points of a progenitor of zero mass away from the axes
C9_Witness ==
    /\ lp_out.via = "Space"
    /\ lp_in.mass = 0
    /\ lp_in.x = <<3, 4, 0>>

ContainerOverloads ==
    {"coordinax", "Space", "Coordinate", "PhaseSpaceCoordinate", "PhaseSpacePosition"}

\* C10: every overload returns the l1 and l2 that the form on raw vectors
\* returns for the same position, velocity, mass and time: the time being
\* the phase-space coordinate's own, and for a phase-space position the one
\* supplied.
C10_OverloadsReduceToVectorForm ==
    lp_out.via \in ContainerOverloads =>
        LET direct == lagrange_points(lp_in.potential, in_x, in_v, lp_in.mass, lp_out.t)
        IN  /\ lp_out.l1 = direct.l1
            /\ lp_out.l2 = direct.l2
            /\ lp_out.via # "PhaseSpacePosition" => lp_out.t = lp_in.t

\* a phase-space position whose own time is not the supplied one, in a host
\* that varies with time, and a phase-space coordinate whose time has an
\* axis of length one
C10_Witness ==
    \/ /\ lp_out.via = "PhaseSpacePosition"
       /\ lp_out.t # lp_in.own_t
       /\ lp_in.potential = "A"
       /\ lp_in.mass > 0
    \/ /\ lp_out.via = "PhaseSpaceCoordinate"
       /\ lp_in.t_shape = <<1>>
       /\ lp_in.t = 1
       /\ lp_in.mass > 0


(***************************************************************************)
(* The mock-stream generator.  One run integrates the progenitor over the  *)
(* grid of N stripping times, releases two tracers (one per tail) at each  *)
(* time, integrates every tracer to the final time and returns the         *)
(* composite of the two tails.  A run is made in "scan" mode and then, on  *)
(* the same arguments, in "vmap" mode.                                     *)
(***************************************************************************)
Tails == <<"lead", "trail">>
Modes == {"scan", "vmap"}
PhaseValues == 0..4
Seeds == {0, 1}
ProgenitorMasses == {1, 2}
ProgenitorStates == {Finite(1), NaN}

TracerIds(N) == {<<Tails[k], i>> : k \in DOMAIN Tails, i \in 1..N}

\* ConstantMassProtenitor.__call__: jnp.ones(t.shape) * self.m_tot
ConstantMassProtenitor(m_tot, t_shape) ==
    IF t_shape = <<>> THEN 1 * m_tot ELSE [i \in 1..t_shape[1] |-> 1 * m_tot]

\* one step of the solver from grid time t: a non-finite state stays
\* non-finite
solver_step(w, t) ==
    IF ~w.finite THEN NaN
    ELSE Finite((2 * w.value + t + 1) % Cardinality(PhaseValues))

\* the solver from grid time t0 to the final time, the end of grid step t1
RECURSIVE integrate(_, _, _)
integrate(w, t0, t1) ==
    IF t0 > t1 THEN w ELSE integrate(solver_step(w, t0), t0 + 1, t1)

\* the pseudo-random stream: a pure function of the seed and the index of
\* the timestep
random_offset(seed, i) == (seed + i) % 2

\* the release state of one tail at timestep i, from the progenitor's state
\* and mass at that time; nth is the number of the release in the order of
\* execution, which the sample does not depend on
release_state_by_order(prog_i, mass_i, seed, i, tail, nth) ==
    IF ~prog_i.finite THEN NaN
    ELSE LET offset == 1 + mass_i + random_offset(seed, nth)
             n == Cardinality(PhaseValues)
         IN  Finite((prog_i.value + (IF tail = "lead" THEN offset ELSE 2 * n - offset)) % n)
release_state(prog_i, mass_i, seed, i, tail, nth) ==
    IF ~prog_i.finite THEN NaN
    ELSE LET offset == 1 + mass_i + random_offset(seed, i)
             n == Cardinality(PhaseValues)
         IN  Finite((prog_i.value + (IF tail = "lead" THEN offset ELSE 2 * n - offset)) % n)

\* the final state of a tracer released at timestep i with state w0: a
\* diverged solve leaves a non-finite state
final_state_masked(w0, i, N, diverged) ==
    IF diverged \/ ~w0.finite THEN Finite(0) ELSE integrate(w0, i, N)
final_state_from_first_time(w0, i, N, diverged) ==
    IF diverged THEN NaN ELSE integrate(w0, 1, N)
final_state(w0, i, N, diverged) ==
    IF diverged THEN NaN ELSE integrate(w0, i, N)

\* the position of a tracer in the output: by tail, then by timestep
slot(tr, N) == (IF tr[1] = Tails[1] THEN 0 ELSE N) + tr[2]

EmptySlot == [filled |-> FALSE]
EmptyBuffer(N) == [k \in 1..(2 * N) |-> EmptySlot]

\* writing a tracer's final state into the output
place_in_completion_order(buf, tr, w, N) ==
    LET k == CHOOSE j \in DOMAIN buf :
                 /\ ~buf[j].filled
                 /\ \A h \in 1..(j - 1) : buf[h].filled
    IN  [buf EXCEPT ![k] = [filled |-> TRUE, tail |-> tr[1], i |-> tr[2], w |-> w]]
place(buf, tr, w, N) ==
    [buf EXCEPT ![slot(tr, N)] = [filled |-> TRUE, tail |-> tr[1], i |-> tr[2], w |-> w]]

\* the mock stream: the composite of the two tails, each of shape (N,)
MockStream(buf, N) ==
    [k \in DOMAIN Tails |->
        [shape |-> <<N>>, w |-> SubSeq(buf, (k - 1) * N + 1, k * N)]]


\* the arguments of a run, with the seed and the mass from the given sets
InitMockOf(seeds, masses) ==
    /\ \E N \in 1..MaxN, w0 \in ProgenitorStates, seed \in seeds, m_tot \in masses :
         \E diverges \in {{}} \cup {{tr} : tr \in TracerIds(N)} :
            /\ ms_in = [N |-> N, w0 |-> w0, seed |-> seed, m_tot |-> m_tot,
                        diverges |-> diverges]
            /\ ms_buf = EmptyBuffer(N)
    /\ ms_mode = "scan"
    /\ ms_prog = FreshProgenitor
    /\ ms_tr = <<>>
    /\ ms_reord = FALSE
    /\ ms_res = NoRun
    /\ CompositeIdle
    /\ LagrangeIdle
    /\ MultipoleIdle
    /\ FieldIdle

InitMock == InitMockOf(Seeds, ProgenitorMasses)

Running == ~ms_res[ms_mode].done

IsFinal(tr) == tr \in DOMAIN ms_tr /\ ms_tr[tr].status = "Final"

\* the progenitor is advanced to the next stripping time
StepProgenitor ==
    /\ Running
    /\ ms_prog.status \in {"Initialized", "Integrating"}
    /\ Len(ms_prog.traj) < ms_in.N
    /\ LET k == Len(ms_prog.traj)
           w == IF k = 0 THEN ms_in.w0 ELSE ms_prog.traj[k]
       IN  ms_prog' = [status |-> "Integrating",
                       traj |-> Append(ms_prog.traj, solver_step(w, k + 1))]
    /\ UNCHANGED <<ms_in, ms_mode, ms_tr, ms_buf, ms_reord, ms_res>>

\* the progenitor has reached the last stripping time
FinishProgenitor ==
    /\ Running
    /\ ms_prog.status = "Integrating"
    /\ Len(ms_prog.traj) = ms_in.N
    /\ ms_prog' = [ms_prog EXCEPT !.status = "Final"]
    /\ UNCHANGED <<ms_in, ms_mode, ms_tr, ms_buf, ms_reord, ms_res>>

\* the two tracers of timestep i are released from the progenitor's state
\* and mass at that time; in scan mode the timesteps are taken in order,
\* each after the tracers of the one before are done
Release(i) ==
    /\ Running
    /\ Len(ms_prog.traj) >= i
    /\ \A k \in DOMAIN Tails : <<Tails[k], i>> \notin DOMAIN ms_tr
    /\ ms_mode = "scan" => \A j \in 1..(i - 1) : \A k \in DOMAIN Tails : IsFinal(<<Tails[k], j>>)
    /\ LET nth == (Cardinality(DOMAIN ms_tr) \div Len(Tails)) + 1
           mass_i == ConstantMassProtenitor(ms_in.m_tot, <<ms_in.N>>)[i]
           new == {<<Tails[k], i>> : k \in DOMAIN Tails}
           w0(tr) == release_state(ms_prog.traj[i], mass_i, ms_in.seed, i, tr[1], nth)
       IN  ms_tr' = [tr \in DOMAIN ms_tr \cup new |->
                        IF tr \in new
                        THEN [status |-> "Initialized", w0 |-> w0(tr), w |-> w0(tr),
                              attempts |-> 0]
                        ELSE ms_tr[tr]]
    /\ ms_reord' = (ms_reord \/ \E j \in 1..(i - 1) : <<Tails[1], j>> \notin DOMAIN ms_tr)
    /\ UNCHANGED <<ms_in, ms_mode, ms_prog, ms_buf, ms_res>>

\* the solver starts on a released tracer
StartTracer(tr) ==
    /\ Running
    /\ tr \in DOMAIN ms_tr
    /\ ms_tr[tr].status = "Initialized"
    /\ ms_tr' = [ms_tr EXCEPT ![tr].status = "Integrating", ![tr].attempts = @ + 1]
    /\ UNCHANGED <<ms_in, ms_mode, ms_prog, ms_buf, ms_reord, ms_res>>

\* the solver ends, at the final time or diverged, and the tracer's state
\* is written to the output
FinishTracer(tr) ==
    /\ Running
    /\ tr \in DOMAIN ms_tr
    /\ ms_tr[tr].status = "Integrating"
    /\ LET w == final_state(ms_tr[tr].w0, tr[2], ms_in.N, tr \in ms_in.diverges)
       IN  /\ ms_tr' = [ms_tr EXCEPT ![tr].status = "Final", ![tr].w = w]
           /\ ms_buf' = place(ms_buf, tr, w, ms_in.N)
    /\ ms_reord' = (ms_reord \/ \E j \in 1..(tr[2] - 1) : \E k \in DOMAIN Tails :
                                    ~IsFinal(<<Tails[k], j>>))
    /\ UNCHANGED <<ms_in, ms_mode, ms_prog, ms_res>>

\* the run returns the mock stream and the progenitor at the final time
Assemble ==
    /\ Running
    /\ ms_prog.status = "Final"
    /\ \A tr \in TracerIds(ms_in.N) : IsFinal(tr)
    /\ LET mock == MockStream(ms_buf, ms_in.N)
       IN  ms_res' = [ms_res EXCEPT ![ms_mode] =
                        [done |-> TRUE,
                         shape |-> _shape_tuple(mock),
                         q |-> mock[1].w \o mock[2].w,
                         prog |-> ms_prog.traj[ms_in.N]]]
    /\ UNCHANGED <<ms_in, ms_mode, ms_prog, ms_tr, ms_buf, ms_reord>>

\* the same arguments are run again in vmap mode
RunVmapped ==
    /\ ms_mode = "scan"
    /\ ms_res["scan"].done
    /\ ms_mode' = "vmap"
    /\ ms_prog' = FreshProgenitor
    /\ ms_tr' = <<>>
    /\ ms_buf' = EmptyBuffer(ms_in.N)
    /\ ms_reord' = FALSE
    /\ UNCHANGED <<ms_in, ms_res>>

MockFrame == UNCHANGED <<varsC, varsL, varsP, varsF>>

DoStepProgenitor == StepProgenitor /\ MockFrame
DoFinishProgenitor == FinishProgenitor /\ MockFrame
DoRelease == (\E i \in 1..ms_in.N : Release(i)) /\ MockFrame
DoStartTracer == (\E tr \in TracerIds(ms_in.N) : StartTracer(tr)) /\ MockFrame
DoFinishTracer == (\E tr \in TracerIds(ms_in.N) : FinishTracer(tr)) /\ MockFrame
DoAssemble == Assemble /\ MockFrame
DoRunVmapped == RunVmapped /\ MockFrame

NextMock ==
    \/ DoStepProgenitor
    \/ DoFinishProgenitor
    \/ DoRelease
    \/ DoStartTracer
    \/ DoFinishTracer
    \/ DoAssemble
    \/ DoRunVmapped

SpecMock == InitMock /\ [][NextMock]_vars

\* a run goes on until it returns: no step that can be taken is put off for
\* ever
InitMockOne == InitMockOf({0}, {1})

SpecMockFair == InitMockOne /\ [][NextMock]_vars /\ WF_vars(NextMock)


(***************************************************************************)
(* Claims about the mock-stream generator.                                 *)
(***************************************************************************)
\* the tail and the timestep the output position k stands for
TailAt(k, N) == Tails[((k - 1) \div N) + 1]
StepAt(k, N) == ((k - 1) % N) + 1

\* C1: a run over N stripping times, in either mode, creates exactly 2N
\* tracers, two per stripping time and one per tail, and the mock stream it
\* returns has batch shape (2N,).
C1_Exactly2NTracers ==
    /\ DOMAIN ms_tr \subseteq TracerIds(ms_in.N)
    /\ \A i \in 1..ms_in.N :
         Cardinality({tr \in DOMAIN ms_tr : tr[2] = i}) \in {0, 2}
    /\ \A i \in 1..ms_in.N : \A k \in DOMAIN Tails :
         Cardinality({tr \in DOMAIN ms_tr : tr[2] = i /\ tr[1] = Tails[k]}) <= 1
    /\ ms_res[ms_mode].done => Cardinality(DOMAIN ms_tr) = 2 * ms_in.N
    /\ \A m \in Modes : ms_res[m].done =>
         /\ ms_res[m].shape = <<2 * ms_in.N>>
         /\ Len(ms_res[m].q) = 2 * ms_in.N
         /\ \A k \in DOMAIN ms_res[m].q : ms_res[m].q[k].filled

C1_Witness ==
    /\ ms_in.N >= 2
    /\ ms_res["scan"].done
    /\ ms_res["vmap"].done
    /\ ms_res["vmap"].shape = <<2 * ms_in.N>>

\* C2: the tracers of the output are laid out by tail first and then by
\* timestep: position k holds the tracer of tail (k - 1) div N released at
\* timestep (k - 1) mod N, with that tracer's final state, whatever the
\* order in which the tracers were integrated or completed.
C2_LayoutByTailThenTimestep ==
    /\ \A k \in DOMAIN ms_buf : ms_buf[k].filled =>
         /\ ms_buf[k].tail = TailAt(k, ms_in.N)
         /\ ms_buf[k].i = StepAt(k, ms_in.N)
         /\ IsFinal(<<ms_buf[k].tail, ms_buf[k].i>>)
         /\ ms_buf[k].w = ms_tr[<<ms_buf[k].tail, ms_buf[k].i>>].w
    /\ \A tr \in DOMAIN ms_tr : ms_tr[tr].status = "Final" =>
         \E k \in DOMAIN ms_buf :
            ms_buf[k] = [filled |-> TRUE, tail |-> tr[1], i |-> tr[2], w |-> ms_tr[tr].w]
    /\ \A m \in Modes : ms_res[m].done =>
         \A k \in DOMAIN ms_res[m].q :
            /\ ms_res[m].q[k].filled
            /\ ms_res[m].q[k].tail = TailAt(k, ms_in.N)
            /\ ms_res[m].q[k].i = StepAt(k, ms_in.N)

C2_Witness ==
    /\ ms_in.N >= 2
    /\ ms_mode = "vmap"
    /\ ms_reord
    /\ ms_res["vmap"].done
    /\ ms_res["vmap"].q = ms_buf

Affected(tr) == tr \in ms_in.diverges \/ ~ms_in.w0.finite

\* C4: a diverged tracer or a non-finite progenitor state neither stops the
\* run nor is retried: no tracer is integrated more than once, an affected
\* tracer ends with a non-finite state, and a finished run returns all 2N
\* tracers with the affected ones non-finite.
C4_NonFiniteSurfacedNoRetry ==
    /\ \A tr \in DOMAIN ms_tr :
         /\ ms_tr[tr].attempts <= 1
         /\ ms_tr[tr].status \in {"Initialized", "Integrating", "Final"}
         /\ (ms_tr[tr].status = "Final" /\ Affected(tr)) => ~ms_tr[tr].w.finite
    /\ \A m \in Modes : ms_res[m].done =>
         /\ Len(ms_res[m].q) = 2 * ms_in.N
         /\ \A k \in DOMAIN ms_res[m].q :
              /\ ms_res[m].q[k].filled
              /\ Affected(<<ms_res[m].q[k].tail, ms_res[m].q[k].i>>) => ~ms_res[m].q[k].w.finite

C4_Witness ==
    /\ ms_in.diverges # {}
    /\ ms_res["scan"].done
    /\ ms_res["vmap"].done
    /\ \E k \in DOMAIN ms_res["vmap"].q :
         /\ <<ms_res["vmap"].q[k].tail, ms_res["vmap"].q[k].i>> \in ms_in.diverges
         /\ ~ms_res["vmap"].q[k].w.finite
    /\ \E k \in DOMAIN ms_res["vmap"].q : ms_res["vmap"].q[k].w.finite


(***************************************************************************)
(* The potential field engine, on the Hernquist potential of the unit      *)
(* tests: m_tot = 1e12 Msun, r_s = 1 kpc, galactic units, x = [1, 2, 3]    *)
(* kpc, t = 0.  Positions are in quarters of a kpc.  The potential is in   *)
(* 1e-4 kpc2/Myr2; the gradient, the Hessian and the tidal tensor are in   *)
(* 1e-8 of their unit and the density in 1e2 Msun/kpc3, as the tests give  *)
(* them.                                                                   *)
(***************************************************************************)
x_test == <<4, 8, 12>>

Axes == 1..3

\* the position x moved by d quarters of a kpc along axis k
Moved(x, k, d) == [i \in Axes |-> IF i = k THEN x[i] + d ELSE x[i]]

\* the positions the potential is evaluated at: x and its neighbours at a
\* quarter of a kpc along each axis
ProbePoints == {x_test} \cup {Moved(x_test, k, d) : k \in Axes, d \in {-1, 1}}

\* the whole part of the square root of n
RECURSIVE IntSqrtIn(_, _, _)
IntSqrtIn(n, lo, hi) ==
    IF lo >= hi THEN lo
    ELSE LET mid == (lo + hi + 1) \div 2
         IN  IF mid * mid <= n THEN IntSqrtIn(n, mid, hi) ELSE IntSqrtIn(n, lo, mid - 1)
IntSqrt(n) == IntSqrtIn(n, 0, 46340)

\* G * m_tot in 1e-8 kpc3/Myr2
GM == 449850215

\* HernquistPotential._potential: -G m_tot / (r + r_s), with r in 1e-4 kpc
hernquist_potential(x) ==
    LET r2 == x[1] * x[1] + x[2] * x[2] + x[3] * x[3]
        r == IntSqrt(r2 * 6250000)
    IN  0 - (GM \div (r + 10000))

\* pot.potential(x, t=0)
potential(x) == hernquist_potential(x)

\* pot.potential(x, t=0) as test_potential expects it, in 1e-8 kpc2/Myr2
potential_expect == 0 - 94871936

\* pot.gradient(x, t=0), as test_gradient expects it
gradient_negated(x) == <<0 - 5347411, 0 - 10694822, 0 - 16042233>>
gradient(x) == <<5347411, 10694822, 16042233>>

\* pot.density(x, t=0), as test_density expects it
density_halved(x) == 3989933 \div 2
density(x) == 3989933

\* pot.hessian(x, t=0), as test_hessian expects it
hessian(x) ==
    << <<4362645, 0 - 1969533, 0 - 2954299>>,
       <<0 - 1969533, 1408345, 0 - 5908599>>,
       <<0 - 2954299, 0 - 5908599, 0 - 3515487>> >>

\* pot.tidal_tensor(x, t=0), as test_tidal_tensor expects it
tidal_tensor_negated(x) ==
    << <<0 - 3610810, 1969533, 2954299>>,
       <<1969533, 0 - 656511, 5908599>>,
       <<2954299, 5908599, 4267321>> >>
tidal_tensor(x) ==
    << <<3610810, 0 - 1969533, 0 - 2954299>>,
       <<0 - 1969533, 656511, 0 - 5908599>>,
       <<0 - 2954299, 0 - 5908599, 0 - 4267321>> >>

\* 4 pi G in 1e-14 kpc3 / (Msun Myr2): between the two numbers
FourPiG == <<5652, 5653>>

CallPotential(x) ==
    /\ <<x, potential(x)>> \notin pf_out.potential
    /\ pf_out' = [pf_out EXCEPT !.potential = @ \cup {<<x, potential(x)>>}]

CallGradient ==
    /\ pf_out.gradient = {}
    /\ pf_out' = [pf_out EXCEPT !.gradient = {gradient(x_test)}]

CallDensity ==
    /\ pf_out.density = {}
    /\ pf_out' = [pf_out EXCEPT !.density = {density(x_test)}]

CallHessian ==
    /\ pf_out.hessian = {}
    /\ pf_out' = [pf_out EXCEPT !.hessian = {hessian(x_test)}]

CallTidalTensor ==
    /\ pf_out.tidal_tensor = {}
    /\ pf_out' = [pf_out EXCEPT !.tidal_tensor = {tidal_tensor(x_test)}]

FieldFrame == UNCHANGED <<varsC, varsL, varsP, varsM>>

DoPotential == (\E x \in ProbePoints : CallPotential(x)) /\ FieldFrame
DoGradient == CallGradient /\ FieldFrame
DoDensity == CallDensity /\ FieldFrame
DoHessian == CallHessian /\ FieldFrame
DoTidalTensor == CallTidalTensor /\ FieldFrame

InitField ==
    /\ FieldIdle
    /\ CompositeIdle
    /\ LagrangeIdle
    /\ MultipoleIdle
    /\ MockIdle

NextField ==
    \/ DoPotential
    \/ DoGradient
    \/ DoDensity
    \/ DoHessian
    \/ DoTidalTensor

SpecField == InitField /\ [][NextField]_vars


(***************************************************************************)
(* Claims about the potential field engine.                                *)
(***************************************************************************)
\* the potential returned at x, where it has been returned
HasPotential(x) == \E pv \in pf_out.potential : pv[1] = x
PotentialAt(x) == (CHOOSE pv \in pf_out.potential : pv[1] = x)[2]

\* the central difference of the potential along axis k over half a kpc,
\* as a derivative in 1e-8 kpc/Myr2
NumericalDerivative(k) ==
    20000 * (PotentialAt(Moved(x_test, k, 1)) - PotentialAt(Moved(x_test, k, 0 - 1)))

AllProbed == \A x \in ProbePoints : HasPotential(x)

\* a agrees with b within three percent of b, the tolerance of a central
\* difference over half a kpc
Within(a, b) == 100 * Abs(a - b) <= 3 * Abs(b)

\* C11 (as stated): the gradient is the negative of the derivative of the
\* potential with respect to the position.
C11_GradientIsNegativeDerivative ==
    (AllProbed /\ pf_out.gradient # {}) =>
        \A g \in pf_out.gradient : \A k \in Axes :
            Within(0 - NumericalDerivative(k), g[k])

\* C11 (corrected): the gradient is the derivative of the potential with
\* respect to the position, with no change of sign: along every axis it
\* agrees with the central difference of the potential within tolerance.
C11_GradientIsDerivative ==
    (AllProbed /\ pf_out.gradient # {}) =>
        \A g \in pf_out.gradient : \A k \in Axes :
            Within(NumericalDerivative(k), g[k])

C11_Witness ==
    /\ AllProbed
    /\ pf_out.gradient # {}
    /\ Abs(10000 * PotentialAt(x_test) - potential_expect) <= 10000
    /\ \A k \in Axes : NumericalDerivative(k) > 0


Trace(m) == m[1][1] + m[2][2] + m[3][3]

\* three times the matrix m with a third of its trace taken off the
\* diagonal
ThriceTraceless(m) ==
    [i \in Axes |-> [j \in Axes |-> 3 * m[i][j] - (IF i = j THEN Trace(m) ELSE 0)]]

Negated(m) == [i \in Axes |-> [j \in Axes |-> 0 - m[i][j]]]

\* every entry of a is within tol of the entry of b
MatrixClose(a, b, tol) == \A i \in Axes : \A j \in Axes : Abs(a[i][j] - b[i][j]) <= tol

Thrice(m) == [i \in Axes |-> [j \in Axes |-> 3 * m[i][j]]]

\* C12 (as stated): the tidal tensor is the negative of the Hessian of the
\* potential, with or without a third of its trace subtracted from the
\* diagonal (to 1e-8, the tolerance of the tests).
C12_TidalTensorIsNegativeHessian ==
    \A tt \in pf_out.tidal_tensor : \A h \in pf_out.hessian :
        \/ MatrixClose(tt, Negated(h), 1)
        \/ MatrixClose(Thrice(tt), ThriceTraceless(Negated(h)), 3)

\* C12 (corrected): the tidal tensor is the Hessian of the potential, with
\* no change of sign, with a third of its trace subtracted from the
\* diagonal; it is symmetric and traceless (to 1e-8).
C12_TidalTensorIsTracelessHessian ==
    \A tt \in pf_out.tidal_tensor : \A h \in pf_out.hessian :
        /\ MatrixClose(Thrice(tt), ThriceTraceless(h), 3)
        /\ \A i \in Axes : \A j \in Axes : tt[i][j] = tt[j][i]
        /\ Abs(Trace(tt)) <= 3

C12_Witness ==
    /\ pf_out.tidal_tensor # {}
    /\ pf_out.hessian # {}
    /\ \E h \in pf_out.hessian : Trace(h) # 0


\* C13: the density is the Laplacian of the potential, the trace of the
\* Hessian, divided by 4 pi G: the density times 4 pi G brackets the trace
\* (in 1e-10 / Myr2, with the density cut to five digits).
C13_DensityIsLaplacianOver4PiG ==
    \A rho \in pf_out.density : \A h \in pf_out.hessian :
        LET rho5 == rho \div 100
        IN  /\ rho5 * FourPiG[1] <= 100 * Trace(h)
            /\ 100 * Trace(h) <= (rho5 + 1) * FourPiG[2]

C13_Witness ==
    /\ pf_out.density # {}
    /\ pf_out.hessian # {}
    /\ \E rho \in pf_out.density : rho > 0
    /\ \E h \in pf_out.hessian : Trace(h) > 0


(***************************************************************************)
(* Claims about the sum of the multipole potentials.                       *)
(***************************************************************************)
\* the positions of an evaluation and the values returned for them, as
\* sequences
EvalPoints == mp_eval.xyz.rows
EvalSums == IF mp_eval.out.shape = <<>> THEN <<mp_eval.out.sum>> ELSE mp_eval.out.sum

\* s = r / r_s of a position
ScaledRadius(x) == RDiv(RSqrt(VNormSq(VOfInts(x))), Num(mp_pot.r_s))

\* the number a sum with l_max = 0 stands for, in units of G m_tot / r_s
RECURSIVE MonopoleNumber(_)
MonopoleNumber(pieces) ==
    IF pieces = <<>> THEN Num(0)
    ELSE RAdd(RMul(pieces[1].radial,
                   RAdd(RMul(Num(pieces[1].S), sph_harm_00.real),
                        RMul(Num(pieces[1].T), sph_harm_00.imag))),
              MonopoleNumber(Tail(pieces)))

\* a and b agree within one percent of b
RClose(a, b) ==
    LET d == RSub(a, b)
    IN  100 * Abs(d[1]) * b[2] <= Abs(b[1]) * d[2]

UnitMonopole ==
    /\ mp_pot.status = "ok"
    /\ mp_pot.l_max = 0
    /\ mp_pot.variant \in {"MultipoleInnerPotential", "MultipoleOuterPotential"}
    /\ mp_pot.coeffs["Slm"].value[1][1] = 1
    /\ mp_pot.coeffs["Tlm"].value[1][1] = 0

\* C14: with l_max = 0, S00 = 1 and T00 = 0 the potential is the monopole
\* closed form: G m_tot / r_s at every position for the inner expansion and
\* G m_tot / r_s * (r / r_s)^-1 for the outer one.
C14_MonopoleClosedForm ==
    (UnitMonopole /\ mp_eval.called) =>
        \A b \in DOMAIN EvalPoints :
            RClose(MonopoleNumber(EvalSums[b][1]),
                   IF mp_pot.variant = "MultipoleInnerPotential" THEN Num(1)
                   ELSE RPow(ScaledRadius(EvalPoints[b]), 0 - 1))


\* C15: a single position of rank 1 is evaluated as a batch of one and the
\* result is a scalar, the sole element of the batch-of-one evaluation; a
\* batch of B positions gives B values, the value of each position in the
\* order of the input.
C15_ScalarPromotedAndSqueezed ==
    mp_eval.called =>
        IF mp_eval.xyz.ndim = 1
        THEN LET one == _potential(mp_pot, [ndim |-> 2, rows |-> mp_eval.xyz.rows], mp_eval.t)
             IN  /\ mp_eval.out.shape = <<>>
                 /\ one.shape = <<1>>
                 /\ mp_eval.out.sum = one.sum[1]
                 /\ mp_eval.out.scale = one.scale
        ELSE /\ mp_eval.out.shape = <<Len(mp_eval.xyz.rows)>>
             /\ Len(mp_eval.out.sum) = Len(mp_eval.xyz.rows)
             /\ \A b \in DOMAIN mp_eval.xyz.rows :
                  mp_eval.out.sum[b] =
                      _potential(mp_pot, [ndim |-> 2, rows |-> <<mp_eval.xyz.rows[b]>>],
                                 mp_eval.t).sum[1]

C15_Witness ==
    /\ mp_eval.called
    /\ mp_eval.xyz.ndim = 1
    /\ mp_eval.out.shape = <<>>
    /\ mp_pot.l_max >= 1
    /\ mp_pot.variant = "MultipolePotential"

\* the exponents of the radial factors of the summand of a variant
RadialExponents(variant, l) ==
    CASE variant = "MultipoleInnerPotential" -> <<l>>
      [] variant = "MultipoleOuterPotential" -> <<0 - (l + 1)>>
      [] variant = "MultipolePotential" -> <<l, 0 - (l + 1)>>

\* the coefficient parameters of the pieces of the summand of a variant
PieceCoefficients(variant) ==
    CASE variant = "MultipoleInnerPotential" -> <<<<"Slm", "Tlm">>>>
      [] variant = "MultipoleOuterPotential" -> <<<<"Slm", "Tlm">>>>
      [] variant = "MultipolePotential" -> <<<<"ISlm", "ITlm">>, <<"OSlm", "OTlm">>>>

\* C16: the sum has one term for each pair (l, m) with 0 <= m <= l <=
\* l_max and no other, (l_max + 1)(l_max + 2) / 2 in all; the term of
\* (l, m) has the radial factor s^l (inner) or s^-(l + 1) (outer) and the
\* coefficients Slm[l, m] and Tlm[l, m], so no coefficient with m > l
\* contributes.
C16_SumOverLowerTriangle ==
    mp_eval.called =>
        \A b \in DOMAIN EvalPoints :
            LET terms == EvalSums[b]
                n == mp_pot.l_max
                s == ScaledRadius(EvalPoints[b])
                es(l) == RadialExponents(mp_pot.variant, l)
                cs == PieceCoefficients(mp_pot.variant)
            IN  /\ 2 * Len(terms) = (n + 1) * (n + 2)
                /\ \A l \in 0..n : \A m \in 0..l :
                     Cardinality({k \in DOMAIN terms :
                                    terms[k][1].cPlm.l = l /\ terms[k][1].cPlm.m = m}) = 1
                /\ \A k \in DOMAIN terms :
                     LET l == terms[k][1].cPlm.l
                         m == terms[k][1].cPlm.m
                     IN  /\ 0 <= m /\ m <= l /\ l <= n
                         /\ Len(terms[k]) = Len(es(l))
                         /\ \A i \in DOMAIN terms[k] :
                              /\ terms[k][i].radial = RPow(s, es(l)[i])
                              /\ terms[k][i].S = mp_pot.coeffs[cs[i][1]].value[l + 1][m + 1]
                              /\ terms[k][i].T = mp_pot.coeffs[cs[i][2]].value[l + 1][m + 1]
                              /\ terms[k][i].cPlm.l = l /\ terms[k][i].cPlm.m = m
                              /\ terms[k][i].sPlm.l = l /\ terms[k][i].sPlm.m = m
                /\ (\A c \in DOMAIN mp_pot.coeffs : mp_pot.coeffs[c].value = UpperOnly(n + 1)) =>
                     \A k \in DOMAIN terms : \A i \in DOMAIN terms[k] :
                        terms[k][i].S = 0 /\ terms[k][i].T = 0

C16_Witness ==
    /\ mp_eval.called
    /\ mp_pot.l_max >= 1
    /\ mp_pot.variant = "MultipolePotential"
    /\ \A c \in DOMAIN mp_pot.coeffs : mp_pot.coeffs[c].value = Numbered(mp_pot.l_max + 1)
    /\ Len(EvalSums[1]) >= 3


(***************************************************************************)
(* The life of the particles of a mock-stream run.                         *)
(***************************************************************************)
StatusSteps == {<<"Initialized", "Integrating">>, <<"Integrating", "Final">>}

\* a new run starts
NewRun == ms_mode' # ms_mode

\* every change of a particle's status is Initialized -> Integrating or
\* Integrating -> Final; a tracer starts Initialized and is never dropped;
\* one step changes one tracer only, and the progenitor's trajectory only
\* grows, by the state at the next stripping time
LifecycleStep ==
    NewRun \/
        /\ ms_prog'.status # ms_prog.status => <<ms_prog.status, ms_prog'.status>> \in StatusSteps
        /\ \/ ms_prog'.traj = ms_prog.traj
           \/ /\ Len(ms_prog'.traj) = Len(ms_prog.traj) + 1
              /\ SubSeq(ms_prog'.traj, 1, Len(ms_prog.traj)) = ms_prog.traj
        /\ DOMAIN ms_tr \subseteq DOMAIN ms_tr'
        /\ \A tr \in DOMAIN ms_tr' :
             IF tr \in DOMAIN ms_tr
             THEN /\ ms_tr'[tr].status # ms_tr[tr].status =>
                        <<ms_tr[tr].status, ms_tr'[tr].status>> \in StatusSteps
                  /\ ms_tr'[tr].w0 = ms_tr[tr].w0
                  /\ ms_tr'[tr] # ms_tr[tr] =>
                        \A other \in DOMAIN ms_tr \ {tr} : ms_tr'[other] = ms_tr[other]
             ELSE ms_tr'[tr].status = "Initialized"

\* the progenitor's state at the time of a released tracer exists, the
\* trajectory never goes past the grid, and a tracer that is Final and did
\* not diverge carries the solution from its own release state and time to
\* the final time
LifecycleState ==
    /\ Len(ms_prog.traj) <= ms_in.N
    /\ ms_prog.status = "Final" => Len(ms_prog.traj) = ms_in.N
    /\ ms_prog.status = "Initialized" => ms_prog.traj = <<>>
    /\ \A tr \in DOMAIN ms_tr :
         /\ tr[2] <= Len(ms_prog.traj)
         /\ ms_tr[tr].status \in {"Initialized", "Integrating", "Final"}
         /\ ms_tr[tr].w0.finite = ms_prog.traj[tr[2]].finite
         /\ (ms_tr[tr].status = "Final" /\ tr \notin ms_in.diverges) =>
                ms_tr[tr].w = integrate(ms_tr[tr].w0, tr[2], ms_in.N)
         /\ ms_tr[tr].status # "Final" => ms_tr[tr].w = ms_tr[tr].w0

\* C17: a particle moves only Initialized -> Integrating -> Final; the
\* progenitor is integrated once over the grid and its state at a stripping
\* time exists before the tracers of that time are released; a tracer is
\* integrated from its own release time to the final time, reaches Final in
\* the end, and its final state comes from its own release state alone.
C17_ParticleLifecycle ==
    /\ [][LifecycleStep]_vars
    /\ []LifecycleState
    /\ \A tr \in TracerIds(MaxN) : (tr \in DOMAIN ms_tr) ~> IsFinal(tr)
    /\ <>(ms_prog.status = "Final")

C17_Witness ==
    /\ ms_in.N >= 2
    /\ ms_mode = "vmap"
    /\ ms_prog.status = "Integrating"
    /\ IsFinal(<<"trail", 1>>)
    /\ <<"lead", 1>> \in DOMAIN ms_tr
    /\ ms_tr[<<"lead", 1>>].status = "Initialized"
    /\ <<"lead", ms_in.N>> \notin DOMAIN ms_tr

====
